---- MODULE Spec2Model ----
(***************************************************************************)
(* KoBERTScore/score.py as a state machine: construction of a BERTScore    *)
(* object, a call of BERTScore.score and the iterations of its batch loop, *)
(* each of which runs bert_score on one slice of the two sentence lists.   *)
(*                                                                         *)
(* Numbers.  A tensor entry is an exact rational <<n, d>> in lowest terms  *)
(* with d > 0, or one of the three IEEE specials <<0,0>> (NaN), <<1,0>>    *)
(* (+inf), <<-1,0>> (-inf).  Rounding of float32 is not modelled.          *)
(* Sentences.  A sentence is the sequence of vocabulary ids its text       *)
(* tokenizes to (the wordpiece algorithm itself is the library's).         *)
(* Encoder.  The pretrained encoder is a lookup of one raw vector per      *)
(* vocabulary id, so a real position's vector does not depend on padding.  *)
(***************************************************************************)
EXTENDS Integers, Sequences, FiniteSets, TLC

\* ---------------------------------------------------------------- bounds
MaxN == 2
MaxBatchSize == 2

\* python None where a name or a path is expected
None == "None"

\* python None where an IDF table is expected
NoIdf == <<>>

\* a function on 1..n as the sequence of its values, each evaluated once
Row(f) == f \o <<>>

\* ------------------------------------------------------- float arithmetic
NaN == <<0, 0>>
PosInf == <<1, 0>>
NegInf == <<-1, 0>>

Abs(x) == IF x < 0 THEN -x ELSE x

Sign(x) == IF x < 0 THEN -1 ELSE IF x > 0 THEN 1 ELSE 0

RECURSIVE Gcd(_, _)
Gcd(a, b) == IF b = 0 THEN a ELSE Gcd(b, a % b)

\* n/d for integers n, d as a float: x/0 is +-inf, 0/0 is NaN
Frac(n, d) ==
    IF d = 0 THEN <<Sign(n), 0>>
    ELSE LET g == Gcd(Abs(n), Abs(d))
         IN  IF d > 0 THEN <<n \div g, d \div g>> ELSE <<(-n) \div g, (-d) \div g>>

Float(i) == <<i, 1>>

IsNaN(x) == x = NaN

IsFinite(x) == x[2] # 0

FAdd(x, y) ==
    IF x[2] # 0 /\ y[2] # 0 THEN Frac(x[1] * y[2] + y[1] * x[2], x[2] * y[2])
    ELSE IF IsNaN(x) \/ IsNaN(y) THEN NaN
    ELSE IF x[2] # 0 THEN y
    ELSE IF y[2] # 0 THEN x
    ELSE IF x = y THEN x ELSE NaN

FNeg(x) == <<-x[1], x[2]>>

FSub(x, y) == FAdd(x, FNeg(y))

FMul(x, y) ==
    IF x[2] # 0 /\ y[2] # 0 THEN Frac(x[1] * y[1], x[2] * y[2])
    ELSE IF IsNaN(x) \/ IsNaN(y) THEN NaN
    ELSE <<Sign(x[1]) * Sign(y[1]), 0>>

FDiv(x, y) ==
    IF x[2] # 0 /\ y[2] # 0 THEN Frac(x[1] * y[2], x[2] * y[1])
    ELSE IF IsNaN(x) \/ IsNaN(y) THEN NaN
    ELSE IF x[2] # 0 THEN Float(0)
    ELSE IF y[2] # 0 THEN <<x[1] * (IF y[1] < 0 THEN -1 ELSE 1), 0>>
    ELSE NaN

\* x <= y on non-NaN floats
FLe(x, y) ==
    IF IsFinite(x) /\ IsFinite(y) THEN x[1] * y[2] <= y[1] * x[2]
    ELSE IF IsFinite(x) THEN y = PosInf
    ELSE IF IsFinite(y) THEN x = NegInf
    ELSE x[1] <= y[1]

\* torch.max of two entries: NaN propagates
FMax(x, y) ==
    IF IsNaN(x) \/ IsNaN(y) THEN NaN ELSE IF FLe(x, y) THEN y ELSE x

RECURSIVE SumTo(_, _)
SumTo(v, n) ==
    IF n = 0 THEN Float(0)
    ELSE IF n = 1 THEN v[1]
    ELSE FAdd(SumTo(v, n - 1), v[n])

\* tensor.sum over the last axis of one row
Sum(v) == SumTo(v, Len(v))

RECURSIVE MaxTo(_, _)
MaxTo(v, n) == IF n = 1 THEN v[1] ELSE FMax(MaxTo(v, n - 1), v[n])

\* tensor.max over the last axis of one row
Max(v) == MaxTo(v, Len(v))

RECURSIVE ISqrtFrom(_, _)
ISqrtFrom(n, r) == IF r * r >= n THEN r ELSE ISqrtFrom(n, r + 1)

\* ------------------------------------------------------------- tokenizer
pad_token_id == 0
cls_token_id == 1
sep_token_id == 2

\* the sentences of the corpus, as the ids their text tokenizes to:
\* "", "a" and "b [SEP]" (the text of a marker maps to the marker id)
Corpus == { <<>>, <<3>>, <<4, sep_token_id>> }

\* the encoder's raw (unnormalized) output vector for each vocabulary id,
\* ids 0 (pad), 1 (cls), 2 (sep), 3, 4
EncoderOutput == << <<3, 4>>, <<10, 0>>, <<-5, 0>>, <<8, 6>>, <<0, 5>> >>

\* len(tokenizer)
VocabSize == Len(EncoderOutput)

RECURSIVE MaxLenTo(_, _)
MaxLenTo(sents, n) ==
    IF n = 0 THEN 0
    ELSE LET m == MaxLenTo(sents, n - 1)
         IN  IF Len(sents[n]) > m THEN Len(sents[n]) ELSE m

\* bert_tokenizer.batch_encode_plus(input_sents, padding=True)
batch_encode_plus(input_sents) ==
    LET K == MaxLenTo(input_sents, Len(input_sents)) + 2
        B == Len(input_sents)
    IN  [input_ids |->
            Row([b \in 1..B |->
                Row([k \in 1..K |->
                    IF k = 1 THEN cls_token_id
                    ELSE IF k <= Len(input_sents[b]) + 1 THEN input_sents[b][k - 1]
                    ELSE IF k = Len(input_sents[b]) + 2 THEN sep_token_id
                    ELSE pad_token_id])]),
         attention_mask |->
            Row([b \in 1..B |->
                Row([k \in 1..K |-> IF k <= Len(input_sents[b]) + 2 THEN 1 ELSE 0])])]

\* torch.where(ids == marker, zeros, mask)
WhereNot(ids, marker, mask) ==
    Row([b \in 1..Len(ids) |->
        Row([k \in 1..Len(ids[b]) |-> IF ids[b][k] = marker THEN 0 ELSE mask[b][k]])])

TokenMaskClsOnly(padded_input_ids, attention_mask) ==
    WhereNot(padded_input_ids, cls_token_id, attention_mask)

\* the two torch.where of sents_to_tensor
TokenMask(padded_input_ids, attention_mask) ==
    WhereNot(padded_input_ids, sep_token_id,
             WhereNot(padded_input_ids, cls_token_id, attention_mask))

Tensors(inputs) ==
    [ids |-> inputs.input_ids, attention_mask |-> inputs.attention_mask,
     token_mask |-> TokenMask(inputs.input_ids, inputs.attention_mask)]

sents_to_tensor(input_sents) == Tensors(batch_encode_plus(input_sents))

\* ---------------------------------------------------------------- encoder
\* bert_model(input_ids, attention_mask)[output_layer_index]: (B, K, D)
bert_forwarding(input_ids, attention_mask) ==
    Row([b \in 1..Len(input_ids) |->
        Row([k \in 1..Len(input_ids[b]) |->
            LET raw == EncoderOutput[input_ids[b][k] + 1]
            IN  Row([d \in 1..Len(raw) |-> Float(raw[d])])])])

\* ---------------------------------------------------------------- scoring
Dot(u, v) == Sum(Row([d \in 1..Len(u) |-> FMul(u[d], v[d])]))

\* torch.norm(vector): the vectors of EncoderOutput have integer norms
Norm(vec) == Float(ISqrtFrom(Dot(vec, vec)[1], 0))

\* embeds.div_(torch.norm(embeds, dim=-1).unsqueeze(-1))
DivideBy(vec, norm) == Row([d \in 1..Len(vec) |-> FDiv(vec[d], norm)])

normalize(embeds) ==
    Row([b \in 1..Len(embeds) |->
        Row([k \in 1..Len(embeds[b]) |-> DivideBy(embeds[b][k], Norm(embeds[b][k]))])])

\* torch.bmm(r, c.permute(0, 2, 1)): (B, K_i, K_r)
bmm(r, c) ==
    Row([b \in 1..Len(r) |->
        Row([i \in 1..Len(r[b]) |->
            Row([j \in 1..Len(c[b]) |-> Dot(r[b][i], c[b][j])])])])

compute_pairwise_cosine(refer_embeds, candi_embeds) ==
    bmm(normalize(refer_embeds), normalize(candi_embeds))

\* idf_embed(ids).squeeze(dim=2)
apply_idf(ids, idf_embed) ==
    Row([b \in 1..Len(ids) |->
        Row([k \in 1..Len(ids[b]) |-> idf_embed[ids[b][k] + 1]])])

\* (scores - base) / (1 - base), elementwise on a (B, K) tensor
Rescale(scores, base, denominator) ==
    Row([b \in 1..Len(scores) |->
        Row([k \in 1..Len(scores[b]) |->
            FDiv(FSub(scores[b][k], base), denominator)])])

rescaling(scores, base) == Rescale(scores, base, FSub(Float(1), base))

\* a LongTensor mask promoted to float by the product with a float tensor
ToFloat(mask) ==
    Row([b \in 1..Len(mask) |-> Row([k \in 1..Len(mask[b]) |-> Float(mask[b][k])])])

\* (scores * weight).sum(axis=1) / weight.sum(axis=1)
WeightedMean(scores, weight) ==
    Row([b \in 1..Len(scores) |->
        FDiv(Sum(Row([k \in 1..Len(scores[b]) |-> FMul(scores[b][k], weight[b][k])])),
             Sum(weight[b]))])

\* pairwise_cosine.max(dim=2): the best candidate position of each
\* reference position
MaxDim2(cosine) ==
    Row([b \in 1..Len(cosine) |->
        Row([i \in 1..Len(cosine[b]) |-> Max(cosine[b][i])])])

\* pairwise_cosine.max(dim=1): the best reference position of each
\* candidate position
MaxDim1(cosine) ==
    Row([b \in 1..Len(cosine) |->
        Row([j \in 1..Len(cosine[b][1]) |->
            Max(Row([i \in 1..Len(cosine[b]) |-> cosine[b][i][j]]))])])

\* 2 * (R * P) / (R + P)
HarmonicMean(R, P) ==
    Row([b \in 1..Len(R) |->
        FDiv(FMul(Float(2), FMul(R[b], P[b])), FAdd(R[b], P[b]))])

RPF(R, P, R_max, P_max) ==
    [R |-> R, P |-> P, F |-> HarmonicMean(R, P), R_max |-> R_max, P_max |-> P_max]

\* the reductions of compute_RPF, after the weights are chosen
Aggregate(R_max, P_max, refer_weight, candi_weight) ==
    RPF(WeightedMean(R_max, refer_weight), WeightedMean(P_max, candi_weight),
        R_max, P_max)

compute_RPF(refer_embeds, candi_embeds, refer_weight_mask, candi_weight_mask, refer_ids, candi_ids, idf, rescale_base) ==
    LET pairwise_cosine == compute_pairwise_cosine(refer_embeds, candi_embeds)
    IN  Aggregate(
            rescaling(MaxDim2(pairwise_cosine), rescale_base),
            rescaling(MaxDim1(pairwise_cosine), rescale_base),
            IF idf # NoIdf THEN apply_idf(refer_ids, idf)
                           ELSE ToFloat(refer_weight_mask),
            IF idf # NoIdf THEN apply_idf(candi_ids, idf)
                           ELSE ToFloat(candi_weight_mask))

\* the second weight mask bert_score hands to compute_RPF
CandiMaskArgument(candi) == candi.attention_mask

Scored(refer, candi, rpf) ==
    [raised |-> FALSE, refer |-> refer, candi |-> candi,
     R |-> rpf.R, P |-> rpf.P, F |-> rpf.F,
     R_max |-> rpf.R_max, P_max |-> rpf.P_max]

\* bert_score on the two tokenized batches
ScoreTokenized(refer, candi, idf, rescale_base) ==
    Scored(refer, candi,
           compute_RPF(bert_forwarding(refer.ids, refer.attention_mask),
                       bert_forwarding(candi.ids, candi.attention_mask),
                       refer.token_mask, CandiMaskArgument(candi),
                       refer.ids, candi.ids, idf, rescale_base))

\* bert_score: raised is TRUE when the library raises (an empty sentence
\* list cannot be encoded; torch.bmm rejects operands whose batch sizes differ)
bert_score(references, candidates, idf, rescale_base) ==
    IF Len(references) = 0 \/ Len(candidates) = 0
       \/ Len(references) # Len(candidates)
    THEN [raised |-> TRUE]
    ELSE ScoreTokenized(sents_to_tensor(references), sents_to_tensor(candidates),
                        idf, rescale_base)

\* ------------------------------------------------------------ IDF resource
\* the IDF files on disk, one weight per line: a table with the same weight
\* on every id, and a file with one line fewer than the vocabulary has ids
IdfPaths == {"uniform.txt", "short.txt"}

IdfLines(path) ==
    CASE path = "uniform.txt" -> <<2, 2, 2, 2, 2>>
      [] path = "short.txt" -> <<0, 0, 0, 1>>

\* the (n_vocab, 1) weight of the Embedding built from the file
load_idf(path) ==
    LET weight == IdfLines(path)
    IN  Row([v \in 1..Len(weight) |-> Float(weight[v])])

\* the rescale_base of the constructor: its default, and a base in (0, 1)
RescaleBases == {Float(0), Frac(1, 2)}

\* ---------------------------------------------------------- BERTScore object
VARIABLES
    pc,             \* "new", "failed", "ready", "loop", "done" or "raised"
    error,          \* the exception that ended construction or the call
    idf,            \* self.idf
    rescale_base,   \* self.rescale_base
    references, candidates, batch_size,     \* the arguments of score
    n_batch, step, F,                       \* the locals of score
    chunks,         \* the <<b, e>> of every iteration so far
    n_tokenized,    \* the batches handed to the tokenizer so far
    refer_batch, candi_batch,               \* the latest slices scored
    refer_ids, refer_attention_mask, refer_weight_mask,
    candi_ids, candi_attention_mask, candi_weight_mask,
    R, P, F_batch   \* what the latest bert_score returned

config == <<idf, rescale_base>>

call == <<references, candidates, batch_size, n_batch>>

locals == <<refer_batch, candi_batch,
            refer_ids, refer_attention_mask, refer_weight_mask,
            candi_ids, candi_attention_mask, candi_weight_mask,
            R, P, F_batch>>

vars == <<pc, error, config, call, step, F, chunks, n_tokenized, locals>>

\* the lists of at most MaxN sentences
SentenceLists == UNION { [1..n -> Corpus] : n \in 0..MaxN }

Init ==
    /\ pc = "new"
    /\ error = None
    /\ idf = NoIdf
    /\ rescale_base = Float(0)
    /\ references = <<>> /\ candidates = <<>> /\ batch_size = 1
    /\ n_batch = 0 /\ step = 0 /\ F = <<>>
    /\ chunks = <<>> /\ n_tokenized = 0
    /\ refer_batch = <<>> /\ candi_batch = <<>>
    /\ refer_ids = <<>> /\ refer_attention_mask = <<>> /\ refer_weight_mask = <<>>
    /\ candi_ids = <<>> /\ candi_attention_mask = <<>> /\ candi_weight_mask = <<>>
    /\ R = <<>> /\ P = <<>> /\ F_batch = <<>>

\* the exception of the size check: building the message of the ValueError
\* evaluates len(tokenizer), and no name tokenizer is bound in __init__
SizeCheckError == "NameError"

\* BERTScore.__init__(model_name_or_path, best_layer, idf_path, rescale_base)
BERTScoreInit(idf_path, base) ==
    /\ pc = "new"
    /\ rescale_base' = base
    /\ IF idf_path # None
       THEN /\ idf' = load_idf(idf_path)
            /\ IF VocabSize # Len(load_idf(idf_path))
               THEN pc' = "failed" /\ error' = SizeCheckError
               ELSE pc' = "ready" /\ error' = None
       ELSE idf' = NoIdf /\ pc' = "ready" /\ error' = None
    /\ UNCHANGED <<call, step, F, chunks, n_tokenized, locals>>

NBatchFloor(n_examples, bs) == n_examples \div bs

\* math.ceil(n_examples / batch_size)
NBatch(n_examples, bs) == (n_examples + bs - 1) \div bs

\* the entry of score: lines up to the loop.  score keeps nothing on the
\* object, so a later call starts from the state the first one starts from
ScoreCall(refs, cands, bs) ==
    /\ pc = "ready"
    /\ references' = refs /\ candidates' = cands /\ batch_size' = bs
    /\ n_batch' = NBatch(Len(refs), bs)
    /\ step' = 0 /\ F' = <<>>
    /\ chunks' = <<>> /\ n_tokenized' = 0
    /\ pc' = "loop" /\ error' = None
    /\ UNCHANGED <<config, locals>>

Min(a, b) == IF a < b THEN a ELSE b

BatchBegin(s, bs) == s * bs

BatchEnd(s, bs, n_examples) == Min((s + 1) * bs, n_examples)

\* the python slice list[b: e]: the bounds are clamped to the list
Slice(list, b, e) == Row([i \in 1..(Min(e, Len(list)) - Min(b, Len(list))) |-> list[b + i]])

\* one iteration of the loop of score
ScoreStep ==
    /\ pc = "loop" /\ step < n_batch
    /\ \E b \in {BatchBegin(step, batch_size)},
          e \in {BatchEnd(step, batch_size, Len(references))} :
          /\ chunks' = Append(chunks, <<b, e>>)
          /\ n_tokenized' = n_tokenized + 1
          /\ \E res \in {bert_score(Slice(references, b, e), Slice(candidates, b, e),
                                    idf, rescale_base)} :
                IF res.raised
                THEN /\ pc' = "raised" /\ error' = "RuntimeError"
                     /\ UNCHANGED <<step, F, locals>>
                ELSE /\ refer_batch' = Slice(references, b, e)
                     /\ candi_batch' = Slice(candidates, b, e)
                     /\ refer_ids' = res.refer.ids
                     /\ refer_attention_mask' = res.refer.attention_mask
                     /\ refer_weight_mask' = res.refer.token_mask
                     /\ candi_ids' = res.candi.ids
                     /\ candi_attention_mask' = res.candi.attention_mask
                     /\ candi_weight_mask' = res.candi.token_mask
                     /\ R' = res.R /\ P' = res.P /\ F_batch' = res.F
                     /\ F' = F \o res.F
                     /\ step' = step + 1
                     /\ UNCHANGED <<pc, error>>
    /\ UNCHANGED <<config, call>>

\* return F
ScoreReturn ==
    /\ pc = "loop" /\ step = n_batch
    /\ pc' = "done"
    /\ UNCHANGED <<error, config, call, step, F, chunks, n_tokenized, locals>>

Next ==
    \/ \E idf_path \in IdfPaths \cup {None}, base \in RescaleBases :
          BERTScoreInit(idf_path, base)
    \/ \E refs \in SentenceLists, cands \in SentenceLists, bs \in 1..MaxBatchSize :
          ScoreCall(refs, cands, bs)
    \/ ScoreStep
    \/ ScoreReturn

Spec == Init /\ [][Next]_vars

\* ------------------------------------------------------------------ claims
\* a bert_score has returned, and the locals hold what it computed
HasScored == R # <<>>

One == Float(1)

C2_BatchSizeInvariance ==
    HasScored =>
        \A b \in 1..Len(refer_batch) :
            \E alone \in {bert_score(<<refer_batch[b]>>, <<candi_batch[b]>>,
                                     idf, rescale_base)} :
                /\ R[b] = alone.R[1]
                /\ P[b] = alone.P[1]
                /\ F_batch[b] = alone.F[1]

\* weight 1 on the real positions that hold no begin/end marker, 0 elsewhere
ContentWeight(ids, attention_mask) ==
    Row([b \in 1..Len(ids) |->
        Row([k \in 1..Len(ids[b]) |->
            IF attention_mask[b][k] = 1
               /\ ids[b][k] \notin {cls_token_id, sep_token_id}
            THEN Float(1) ELSE Float(0)])])

\* C3: without an IDF table, Recall is the mean of RecallMax over the
\* content positions of the reference and Precision the mean of
\* PrecisionMax over the content positions of the candidate.
C3_ContentMaskBothSides ==
    (HasScored /\ idf = NoIdf) =>
        \E res \in {bert_score(refer_batch, candi_batch, idf, rescale_base)} :
            /\ R = WeightedMean(res.R_max,
                                ContentWeight(refer_ids, refer_attention_mask))
            /\ P = WeightedMean(res.P_max,
                                ContentWeight(candi_ids, candi_attention_mask))

\* C4: bert_score on the swapped lists returns the original Precision as
\* Recall, the original Recall as Precision, and the same F1.
C4_Symmetry ==
    HasScored =>
        \E swapped \in {bert_score(candi_batch, refer_batch, idf, rescale_base)} :
            /\ swapped.R = P
            /\ swapped.P = R
            /\ swapped.F = F_batch

IsConstantTable(table) ==
    /\ table # NoIdf
    /\ table[1] # Float(0)
    /\ \A v \in 1..Len(table) : table[v] = table[1]

\* C5: with an IDF table that gives every id the same nonzero weight, the
\* Recall, Precision and F1 equal those computed with no IDF table.
C5_ConstantIdf ==
    (HasScored /\ IsConstantTable(idf)) =>
        \E uniform \in {bert_score(refer_batch, candi_batch, NoIdf, rescale_base)} :
            /\ R = uniform.R
            /\ P = uniform.P
            /\ F_batch = uniform.F

\* C6: with rescale_base = 0, a pair whose two sentences are the same token
\* sequence has Recall = Precision = F1 = 1, whatever else is in the batch.
C6_IdenticalPair ==
    (HasScored /\ rescale_base = Float(0)) =>
        \A b \in 1..Len(refer_batch) :
            refer_batch[b] = candi_batch[b] =>
                R[b] = One /\ P[b] = One /\ F_batch[b] = One

\* C7: a call whose two lists differ in length fails before any batch is
\* tokenized, and never returns a score list.
C7_LengthValidation ==
    (pc \in {"loop", "done", "raised"} /\ Len(references) # Len(candidates)) =>
        /\ n_tokenized = 0
        /\ pc # "done"

\* C8: construction with an IDF resource whose size differs from the
\* vocabulary size fails with a configuration error (the ValueError of the
\* size check); with equal sizes or no IDF resource it succeeds.
C8_ConstructionCheck ==
    /\ (pc # "new" /\ idf # NoIdf /\ Len(idf) # VocabSize) =>
            pc = "failed" /\ error = "ValueError"
    /\ (pc # "new" /\ (idf = NoIdf \/ Len(idf) = VocabSize)) => pc # "failed"

\* C9: a zero weight sum, or Recall + Precision = 0, is flagged as an error;
\* no Recall, Precision or F1 that is returned is NaN.
C9_NoSilentNaN ==
    /\ \A k \in 1..Len(F) : ~IsNaN(F[k])
    /\ \A b \in 1..Len(R) : ~IsNaN(R[b]) /\ ~IsNaN(P[b]) /\ ~IsNaN(F_batch[b])

MaskIsContent(ids, attention_mask, token_mask) ==
    \A b \in 1..Len(ids) :
        \A k \in 1..Len(ids[b]) :
            /\ token_mask[b][k] =
                  (IF attention_mask[b][k] = 1
                      /\ ids[b][k] # cls_token_id /\ ids[b][k] # sep_token_id
                   THEN 1 ELSE 0)
            /\ token_mask[b][k] <= attention_mask[b][k]

\* C10: the token mask of sents_to_tensor is 1 exactly where the attention
\* mask is 1 and the id is neither the CLS nor the SEP id, so it is at most
\* the attention mask; the ids and the attention mask are the tokenizer's.
C10_TokenMask ==
    HasScored =>
        /\ MaskIsContent(refer_ids, refer_attention_mask, refer_weight_mask)
        /\ MaskIsContent(candi_ids, candi_attention_mask, candi_weight_mask)
        /\ \E inputs \in {batch_encode_plus(refer_batch)} :
              /\ refer_ids = inputs.input_ids
              /\ refer_attention_mask = inputs.attention_mask
        /\ \E inputs \in {batch_encode_plus(candi_batch)} :
              /\ candi_ids = inputs.input_ids
              /\ candi_attention_mask = inputs.attention_mask

\* a candidate batch with a padded row, and a row that holds the SEP id
\* inside the sentence as well as after it, and a content position
C10_Witness ==
    /\ HasScored
    /\ \E b \in 1..Len(candi_ids) :
          \E k \in 1..Len(candi_ids[b]) : candi_attention_mask[b][k] = 0
    /\ \E b \in 1..Len(candi_ids) :
          \E k \in 2..(Len(candi_ids[b]) - 1) :
             /\ candi_ids[b][k] = sep_token_id
             /\ candi_attention_mask[b][k + 1] = 1
             /\ candi_weight_mask[b][k - 1] = 1

====
